---- MODULE Spec2Model ----
(***************************************************************************)
(* VentureVision: the orchestration core of agents.py.                     *)
(*                                                                         *)
(* extract, the three analysis agents and combined_agent are modelled as   *)
(* the code computes them; the Generation Service, the Lookup Service and  *)
(* the langgraph reasoning loop are external and answer nondeterministically*)
(* from bounded sets of outcomes.                                          *)
(*                                                                         *)
(* Python values are records [ty, s, d]: ty is the Python type name, s the *)
(* text of a str as a sequence of tokens, d the items of a dict (or the    *)
(* fields of a pydantic instance, or the items of a list under "0","1"..). *)
(***************************************************************************)
EXTENDS Integers, Sequences, FiniteSets, TLC

VARIABLES
    pc,           \* position of the combined_agent coroutine
    extracted,    \* combined_agent: extracted = extract(user_query)
    loopOut,      \* what each reasoning loop did in this run (by agent kind)
    market,       \* combined_agent: market
    competition,  \* combined_agent: competition
    financial,    \* combined_agent: financial
    synthIn,      \* the mapping handed to final_agent.ainvoke
    synthOut,     \* what the synthesis call did in this run
    result,       \* the value combined_agent returned
    trace,        \* the stages entered so far, in order
    agentIn,      \* the arguments each agent was called with (by agent kind)
    exPc,         \* position of a direct call of extract
    exOut,        \* what the Generation Service did for that call
    exRet,        \* the value that call returned
    appPc,        \* app.py: position of the Analyze Business Idea handler
    user_input,   \* app.py: user_input, the text of the query
    analysis_type,       \* app.py: analysis_type, the sidebar selection
    parsed_user_intent,  \* app.py: parsed_user_intent = extract(user_input)
    appResult,    \* app.py: the analysis result the handler received
    shown,        \* app.py: the section texts the handler displayed
    hIntent,      \* agents run on their own: the IntentRecord they are given
    mock,         \* the fixed answer of each agent's reasoning loop (by kind)
    agPc,         \* position of each agent coroutine (by kind)
    agArgs,       \* the arguments each agent coroutine received (by kind)
    agReport,     \* the record each agent coroutine returned (by kind)
    agOrder,      \* the kinds in the order their coroutines started, ended
    finArgs,      \* financial_analysis: business, location, description
    finPc,        \* position of each call of financial_analysis (by call)
    finIssued,    \* the direct queries each call issued, in order
    finLookups,   \* what the Lookup Service did for each of them
    finResults,   \* financial_analysis: financial_results
    finLoop,      \* what the reasoning loop did in each call
    finLoopCalls, \* how often each call invoked finance_agent.ainvoke
    finRet,       \* the value each call returned
    syService,    \* the deterministic Generation Service: prompt -> answer
    syPc,         \* position of each synthesis step (by call)
    syIn,         \* the IntentRecord and the three reports each step is given
    syPrompt,     \* the mapping each step handed to final_agent.ainvoke
    syRet,        \* what each step returned
    trPc,         \* position of a call of google_trends_insight
    trTerm,       \* google_trends_insight: term
    trData,       \* what the Trend Service holds for the term, or its failure
    trRet         \* the value that call returned

appVars ==
    <<appPc, user_input, analysis_type, parsed_user_intent, appResult, shown>>

agVars == <<hIntent, mock, agPc, agArgs, agReport, agOrder>>

finVars ==
    <<finArgs, finPc, finIssued, finLookups, finResults, finLoop,
      finLoopCalls, finRet>>

syVars == <<syService, syPc, syIn, syPrompt, syRet>>

trVars == <<trPc, trTerm, trData, trRet>>

\* the state outside combined_agent and a direct call of extract
sideVars == <<appVars, agVars, finVars, syVars, trVars>>

vars == <<pc, extracted, loopOut, market, competition, financial, synthIn,
          synthOut, result, trace, agentIn, exPc, exOut, exRet, sideVars>>

----------------------------------------------------------------------------
(* Bounds *)

\* number of distinct answer payloads the services may produce per stage
MaxPayload == 2

\* the highest interest value of a trend series, and its greatest length
MaxInterest == 2
MaxSeries == 3

----------------------------------------------------------------------------
(* Python values *)

EmptyItems == <<>>

Str(toks) == [ty |-> "str", s |-> toks, d |-> EmptyItems]
None == [ty |-> "NoneType", s |-> <<>>, d |-> EmptyItems]
IntVal == [ty |-> "int", s |-> <<"7">>, d |-> EmptyItems]
Dict(items) == [ty |-> "dict", s |-> <<>>, d |-> items]
Obj(cls, fields) == [ty |-> cls, s |-> <<>>, d |-> fields]
List(elems) ==
    [ty |-> "list", s |-> <<>>,
     d |-> [k \in {ToString(i - 1) : i \in 1..Len(elems)} |->
               elems[CHOOSE i \in 1..Len(elems) : ToString(i - 1) = k]]]

\* a variable that holds no value yet
Unset == [ty |-> "unset", s |-> <<>>, d |-> EmptyItems]

IsDict(v) == v.ty = "dict"
IsStr(v) == v.ty = "str"
HasKey(v, k) == k \in DOMAIN v.d

\* Python truthiness of the values that occur: None, "" and {} are falsy
Truthy(v) ==
    CASE v.ty = "NoneType" -> FALSE
      [] v.ty = "str" -> v.s # <<>>
      [] v.ty \in {"dict", "list"} -> DOMAIN v.d # {}
      [] OTHER -> TRUE

\* dict.get(key, default)
Get(v, k, default) == IF HasKey(v, k) THEN v.d[k] ELSE default

Range(seq) == {seq[i] : i \in 1..Len(seq)}

----------------------------------------------------------------------------
(* The declared schemas: field names in declaration order *)

MarketKeys ==
    <<"market_overview", "competitive_landscape", "target_customers",
      "regulatory_environment", "swot_analysis", "emerging_trends",
      "key_recommendations">>

CompetitiveKeys ==
    <<"competitors", "competitor_profiles", "market_positioning",
      "strengths_weaknesses", "opportunities_threats",
      "strategic_recommendations">>

FinancialKeys ==
    <<"startup_costs", "revenue_potential", "funding_options",
      "profit_margins", "financial_risks", "strategic_recommendations">>

CombinedKeys ==
    <<"market_analysis", "competitive_analysis", "financial_analysis",
      "executive_summary">>

Kinds == {"market", "competitive", "financial"}

KeysOf(kind) ==
    CASE kind = "market" -> MarketKeys
      [] kind = "competitive" -> CompetitiveKeys
      [] kind = "financial" -> FinancialKeys

ClassOf(kind) ==
    CASE kind = "market" -> "MarketAnalysisResponse"
      [] kind = "competitive" -> "CompetitiveAnalysisResponse"
      [] kind = "financial" -> "FinancialAnalysisResponse"

\* the field an agent's except branch fills with "Error: ..."
PrimaryOf(kind) == KeysOf(kind)[1]

----------------------------------------------------------------------------
(* Text: a str is a sequence of tokens.  Fence stands for the three         *)
(* backticks of a Markdown code fence (three characters),                 *)
(* JsonTag the word json that may follow them, Newline is whitespace.      *)

Fence == "<fence>"
JsonTag == "json"
Newline == "\n"
Whitespace == {Newline, " "}

RECURSIVE LStrip(_)
LStrip(s) ==
    IF s # <<>> /\ Head(s) \in Whitespace THEN LStrip(Tail(s)) ELSE s

RECURSIVE RStrip(_)
RStrip(s) ==
    IF s # <<>> /\ s[Len(s)] \in Whitespace
    THEN RStrip(SubSeq(s, 1, Len(s) - 1))
    ELSE s

\* str.strip()
Strip(s) == RStrip(LStrip(s))

\* s.startswith(Fence + "json")
StartsWithJsonFence(s) == Len(s) >= 2 /\ s[1] = Fence /\ s[2] = JsonTag

\* s.replace(Fence + "json", "")
RECURSIVE RemoveJsonFences(_)
RemoveJsonFences(s) ==
    IF s = <<>> THEN <<>>
    ELSE IF StartsWithJsonFence(s) THEN RemoveJsonFences(Tail(Tail(s)))
    ELSE <<Head(s)>> \o RemoveJsonFences(Tail(s))

\* s.replace(Fence, "")
RECURSIVE RemoveFences(_)
RemoveFences(s) ==
    IF s = <<>> THEN <<>>
    ELSE IF Head(s) = Fence THEN RemoveFences(Tail(s))
    ELSE <<Head(s)>> \o RemoveFences(Tail(s))

\* s[3:-3] where s starts and ends with the three-character fence
DropFenceChars(s) == IF Len(s) >= 2 THEN SubSeq(s, 2, Len(s) - 1) ELSE <<>>

\* extract: the clean-up of Markdown code block formatting
CleanFences(s) ==
    IF StartsWithJsonFence(s)
    THEN Strip(RemoveFences(RemoveJsonFences(s)))
    ELSE IF s # <<>> /\ s[1] = Fence /\ s[Len(s)] = Fence
    THEN Strip(DropFenceChars(s))
    ELSE s

----------------------------------------------------------------------------
(* JSON documents.  A JSON document is one token; json.loads maps it to    *)
(* the Python value it denotes and fails on every other text.              *)

Business(i) == Str(<<"Bakery#" \o ToString(i)>>)
Mumbai == Str(<<"Mumbai">>)
Description(i) == Str(<<"A cozy bakery#" \o ToString(i)>>)

SentinelBusiness == Str(<<"unknown">>)
SentinelLocation == Str(<<"any">>)
SentinelDescription == Str(<<"N/A">>)

Intent(b, l, dsc) ==
    Dict([k \in {"business", "location", "description"} |->
             CASE k = "business" -> b
               [] k = "location" -> l
               [] k = "description" -> dsc])

\* a dict without one of its keys
Without(v, k) == Dict([x \in DOMAIN v.d \ {k} |-> v.d[x]])

\* a dict with one item set
With(v, k, val) ==
    Dict([x \in DOMAIN v.d \cup {k} |-> IF x = k THEN val ELSE v.d[x]])

ValidDocTokens == {"{valid#" \o ToString(i) \o "}" : i \in 1..MaxPayload}

ObjectDocTokens ==
    ValidDocTokens \cup
    {"{sentinels}", "{any location}", "{no description}", "{no business}",
     "{no location}", "{null location}", "{empty location}",
     "{empty business}", "{with error key}"}

DocTokens == ObjectDocTokens \cup {"[]", "\"Bakery\"", "null", "7"}

ValidDoc(tok) ==
    LET i == CHOOSE j \in 1..MaxPayload : tok = "{valid#" \o ToString(j) \o "}"
    IN  Intent(Business(i), Mumbai, Description(i))

JsonValue(tok) ==
    CASE tok \in ValidDocTokens -> ValidDoc(tok)
      [] tok = "{sentinels}" ->
            Intent(SentinelBusiness, SentinelLocation, SentinelDescription)
      [] tok = "{any location}" ->
            Intent(Business(1), SentinelLocation, Description(1))
      [] tok = "{no description}" ->
            Without(Intent(Business(1), Mumbai, None), "description")
      [] tok = "{no business}" ->
            Without(Intent(None, Mumbai, Description(1)), "business")
      [] tok = "{no location}" ->
            Without(Intent(Business(1), None, Description(1)), "location")
      [] tok = "{null location}" -> Intent(Business(1), None, Description(1))
      [] tok = "{empty location}" ->
            Intent(Business(1), Str(<<>>), Description(1))
      [] tok = "{empty business}" -> Intent(Str(<<>>), Mumbai, Description(1))
      [] tok = "{with error key}" ->
            With(Intent(Business(1), Mumbai, Description(1)), "error",
                 Str(<<"none">>))
      [] tok = "[]" -> List(<<>>)
      [] tok = "\"Bakery\"" -> Str(<<"Bakery">>)
      [] tok = "null" -> None
      [] tok = "7" -> IntVal

JSONDecodeError == Str(<<"Expecting value: line 1 column 1 (char 0)">>)

\* json.loads(s): surrounding whitespace is skipped, the rest must be one
\* document
JsonLoads(s) ==
    LET t == Strip(s)
    IN  IF Len(t) = 1 /\ t[1] \in DocTokens
        THEN [ok |-> TRUE, v |-> JsonValue(t[1])]
        ELSE [ok |-> FALSE, v |-> JSONDecodeError]

----------------------------------------------------------------------------
(* extract(text): the Intent Extractor *)

\* the texts the Generation Service may answer the extraction prompt with
Garbage == <<"Sure, here is what I found.">>

TextForms(doc) ==
    {<<doc>>,
     <<Newline, doc, Newline>>,
     <<Fence, JsonTag, Newline, doc, Newline, Fence>>,
     <<Fence, Newline, doc, Newline, Fence>>,
     <<Fence, JsonTag, Newline, doc>>,
     <<Fence, Newline, doc>>}

ExtractTexts ==
    UNION {TextForms(doc) : doc \in DocTokens}
        \cup {Garbage, <<>>, <<Fence>>, <<Fence, JsonTag, Garbage[1], Fence>>}

\* what the Generation Service does for one call of extract
ExtractOutcomes ==
    {[kind |-> "construct_raises", content |-> <<>>],
     [kind |-> "invoke_raises", content |-> <<>>],
     [kind |-> "content_not_str", content |-> <<>>]}
        \cup {[kind |-> "text", content |-> c] : c \in ExtractTexts}

ServiceError == Str(<<"503 The service is currently unavailable.">>)
NoStripError == Str(<<"'list' object has no attribute 'strip'">>)

SentinelIntent ==
    Intent(SentinelBusiness, SentinelLocation, SentinelDescription)

\* llm_output_str as it is handed to json.loads
ParserInput(content) == CleanFences(Strip(content))

\* extract with one except branch for every failure: the parse failure is
\* reported like any other, without the text that failed to parse
Extract_OneExceptBranch(o) ==
    CASE o.kind = "construct_raises" -> [raised |-> TRUE, ret |-> Unset]
      [] o.kind = "invoke_raises" ->
            [raised |-> FALSE, ret |-> With(SentinelIntent, "error", ServiceError)]
      [] o.kind = "content_not_str" ->
            [raised |-> FALSE, ret |-> With(SentinelIntent, "error", NoStripError)]
      [] o.kind = "text" ->
            LET parsed == JsonLoads(ParserInput(o.content))
            IN  IF parsed.ok
                THEN [raised |-> FALSE, ret |-> parsed.v]
                ELSE [raised |-> FALSE,
                      ret |-> With(SentinelIntent, "error", parsed.v)]

\* the return value of extract, or raised = TRUE when the call raises
Extract(o) ==
    CASE o.kind = "construct_raises" -> [raised |-> TRUE, ret |-> Unset]
      [] o.kind = "invoke_raises" ->
            [raised |-> FALSE, ret |-> With(SentinelIntent, "error", ServiceError)]
      [] o.kind = "content_not_str" ->
            [raised |-> FALSE, ret |-> With(SentinelIntent, "error", NoStripError)]
      [] o.kind = "text" ->
            LET llm_output_str == ParserInput(o.content)
                parsed == JsonLoads(llm_output_str)
            IN  IF parsed.ok
                THEN [raised |-> FALSE, ret |-> parsed.v]
                ELSE [raised |-> FALSE,
                      ret |-> With(With(SentinelIntent, "error", parsed.v),
                                   "raw_llm_output", Str(llm_output_str))]

----------------------------------------------------------------------------
(* The reasoning loop (create_react_agent(...).ainvoke) as seen by an agent *)

PayloadText(kind, k, i) == Str(<<kind \o ":" \o k \o "#" \o ToString(i)>>)

\* a complete answer: every declared field, each a str
Payload(kind, i) ==
    [k \in Range(KeysOf(kind)) |-> PayloadText(kind, k, i)]

\* the values a loop may leave under 'structured_response'
StructuredValues(kind) ==
    {Obj(ClassOf(kind), Payload(kind, i)) : i \in 1..MaxPayload}
        \cup {Dict(Payload(kind, i)) : i \in 1..MaxPayload}
        \cup {Without(Dict(Payload(kind, 1)), PrimaryOf(kind)),
              With(Dict(Payload(kind, 1)), PrimaryOf(kind), IntVal),
              With(Dict(Payload(kind, 1)), "confidence", Str(<<"high">>)),
              None,
              Str(<<"Information not available">>)}

Messages == List(<<Obj("AIMessage", [content |-> Str(<<"done">>)])>>)

\* the graph state ainvoke returns: always 'messages', and
\* 'structured_response' when the loop produced one
LoopStates(kind) ==
    {Dict([messages |-> Messages])}
        \cup {Dict([messages |-> Messages, structured_response |-> v]) :
                 v \in StructuredValues(kind)}

LoopOutcomes(kind) ==
    {[tag |-> "construct_raises", v |-> Unset],
     [tag |-> "ainvoke_raises", v |-> Unset]}
        \cup {[tag |-> "state", v |-> st] : st \in LoopStates(kind)}

NoOutcome == [tag |-> "none", v |-> Unset]

----------------------------------------------------------------------------
(* The three analysis agents *)

\* a fallback that names the primary field alone
ErrorRecord_PrimaryOnly(kind, cause) ==
    Dict([k \in {PrimaryOf(kind)} |-> Str(<<"Error: ">> \o cause.s)])

\* a fallback that fills the other fields with a placeholder
ErrorRecord_Placeholder(kind, cause) ==
    Dict([k \in Range(KeysOf(kind)) |->
             IF k = PrimaryOf(kind)
             THEN Str(<<"Error: ">> \o cause.s)
             ELSE Str(<<"No data available.">>)])

\* the record an agent's fallback branches build
ErrorRecord(kind, cause) ==
    Dict([k \in Range(KeysOf(kind)) |->
             IF k = PrimaryOf(kind)
             THEN Str(<<"Error: ">> \o cause.s)
             ELSE Str(<<>>)])

UnexpectedStructure == Str(<<"Unexpected response structure.">>)

ValidationError(kind) ==
    Str(<<"1 validation error for " \o ClassOf(kind)>>)

AttributeError(v) ==
    Str(<<"'" \o v.ty \o "' object has no attribute 'dict'">>)

\* a validation that checks the presence of the fields, not their type
Validates_PresenceOnly(kind, structured) ==
    \A k \in Range(KeysOf(kind)) : HasKey(structured, k)

\* Schema(**structured): every declared field present and a str
Validates(kind, structured) ==
    \A k \in Range(KeysOf(kind)) :
        HasKey(structured, k) /\ IsStr(structured.d[k])

\* instance.dict(): the declared fields
ModelDict(kind, v) == Dict([k \in Range(KeysOf(kind)) |-> v.d[k]])

\* a structured response kept in one place for all agents: every agent reads
\* the answer of the loop that started first
Structured_SharedAnswer(state) ==
    IF agOrder # <<>>
    THEN Get(mock[Head(agOrder)].v, "structured_response", state)
    ELSE Get(state, "structured_response", state)

\* result.get('structured_response', result)
Structured(state) == Get(state, "structured_response", state)

\* the try block of run_market_analysis_agent and
\* run_competitive_analysis_agent
CoerceReport(kind, o) ==
    IF o.tag = "ainvoke_raises" THEN ErrorRecord(kind, ServiceError)
    ELSE LET structured == Structured(o.v)
         IN  IF structured.ty = ClassOf(kind)
             THEN ModelDict(kind, structured)
             ELSE IF IsDict(structured)
             THEN IF Validates(kind, structured)
                  THEN ModelDict(kind, structured)
                  ELSE ErrorRecord(kind, ValidationError(kind))
             ELSE ErrorRecord(kind, UnexpectedStructure)

\* the try block of financial_analysis
CoerceFinancial(o) ==
    IF o.tag = "ainvoke_raises" THEN ErrorRecord("financial", ServiceError)
    ELSE LET structured == Structured(o.v)
         IN  IF structured.ty = ClassOf("financial")
             THEN ModelDict("financial", structured)
             ELSE ErrorRecord("financial", AttributeError(structured))

run_market_analysis_agent(o) ==
    IF o.tag = "construct_raises"
    THEN [raised |-> TRUE, ret |-> Unset]
    ELSE [raised |-> FALSE, ret |-> CoerceReport("market", o)]

run_competitive_analysis_agent(o) ==
    IF o.tag = "construct_raises"
    THEN [raised |-> TRUE, ret |-> Unset]
    ELSE [raised |-> FALSE, ret |-> CoerceReport("competitive", o)]

\* f"{v}": the text of a value inside an f-string
Format(v) ==
    CASE v.ty = "str" -> v.s
      [] v.ty = "NoneType" -> <<"None">>
      [] v.ty = "int" -> v.s
      [] OTHER -> <<"<" \o v.ty \o ">">>

\* the four direct queries of financial_analysis
Queries(business, location) ==
    <<<<"startup costs for ">> \o Format(business) \o <<" in ">> \o Format(location),
      <<"average revenue for ">> \o Format(business) \o <<" in ">> \o Format(location),
      <<"funding options for ">> \o Format(business) \o <<" startup">>,
      <<"profit margins for ">> \o Format(business) \o <<" industry">>>>

LookupOutcomes == [1..4 -> {"snippets", "raises"}]

\* financial_results after the loop over queries: one entry per query whose
\* search did not raise
RECURSIVE FinancialResults(_, _, _)
FinancialResults(queries, lookups, n) ==
    IF n = 0 THEN <<>>
    ELSE FinancialResults(queries, lookups, n - 1) \o
            (IF lookups[n] = "snippets"
             THEN <<<<"--- Search Results for '">> \o queries[n] \o
                    <<"' ---", Newline, "snippets", Newline>>>>
             ELSE <<>>)

financial_analysis(business, location, lookups, o) ==
    LET financial_results ==
            FinancialResults(Queries(business, location), lookups, 4)
    IN  IF o.tag = "construct_raises"
        THEN [raised |-> TRUE, ret |-> Unset,
              searches |-> Len(financial_results)]
        ELSE [raised |-> FALSE, ret |-> CoerceFinancial(o),
              searches |-> Len(financial_results)]

----------------------------------------------------------------------------
(* The Synthesizer call of combined_agent *)

\* json.dumps(report, indent=2): the items in insertion order, which for
\* every record an agent returns is the declaration order of its schema
RECURSIVE DumpItems(_, _, _)
DumpItems(keys, v, n) ==
    IF n = 0 THEN <<>>
    ELSE DumpItems(keys, v, n - 1) \o
            (IF n > 1 THEN <<",", Newline>> ELSE <<>>) \o
            <<"\"" \o keys[n] \o "\"", ": ", "\"">> \o v.d[keys[n]].s \o <<"\"">>

JsonDumps(keys, v) ==
    Str(<<"{", Newline>> \o DumpItems(keys, v, Len(keys)) \o <<Newline, "}">>)

\* the mapping with the business passed in the place of the description
SynthesisInput_WrongDescription(business, location, description, m, c, f) ==
    Dict([k \in {"business", "location", "description", "market",
                 "competition", "financial"} |->
             CASE k = "business" -> business
               [] k = "location" -> location
               [] k = "description" -> business
               [] k = "market" -> JsonDumps(MarketKeys, m)
               [] k = "competition" -> JsonDumps(CompetitiveKeys, c)
               [] k = "financial" -> JsonDumps(FinancialKeys, f)])

\* the mapping with the response of an earlier synthesis step passed along
SynthesisInput_WithHistory(business, location, description, m, c, f) ==
    Dict([k \in {"business", "location", "description", "market",
                 "competition", "financial"}
                    \cup (IF syRet["first"].ty = "unset" THEN {}
                          ELSE {"history"}) |->
             CASE k = "business" -> business
               [] k = "location" -> location
               [] k = "description" -> description
               [] k = "market" -> JsonDumps(MarketKeys, m)
               [] k = "competition" -> JsonDumps(CompetitiveKeys, c)
               [] k = "financial" -> JsonDumps(FinancialKeys, f)
               [] k = "history" -> Str(<<"previous summary">>)])

\* the mapping handed to final_agent.ainvoke
SynthesisInput(business, location, description, m, c, f) ==
    Dict([k \in {"business", "location", "description", "market",
                 "competition", "financial"} |->
             CASE k = "business" -> business
               [] k = "location" -> location
               [] k = "description" -> description
               [] k = "market" -> JsonDumps(MarketKeys, m)
               [] k = "competition" -> JsonDumps(CompetitiveKeys, c)
               [] k = "financial" -> JsonDumps(FinancialKeys, f)])

\* the texts the Generation Service may answer the synthesis prompt with
CombinedDocTokens == {"{combined#" \o ToString(i) \o "}" : i \in 1..MaxPayload}

SynthTexts ==
    {<<doc>> : doc \in CombinedDocTokens}
        \cup {<<Fence, JsonTag, Newline, doc, Newline, Fence>> :
                 doc \in CombinedDocTokens}
        \cup {<<"{combined without executive_summary}">>, Garbage}

\* the JSON object a synthesis answer text denotes, when it is one
CombinedDoc(tok) ==
    LET i == CHOOSE j \in 1..MaxPayload : tok = "{combined#" \o ToString(j) \o "}"
    IN  Dict([k \in Range(CombinedKeys) |-> PayloadText("combined", k, i)])

\* the graph state final_agent.ainvoke returns: the messages, the last one
\* carrying the answer text
SynthState(text) ==
    Dict([messages |-> List(<<Obj("AIMessage", [content |-> Str(text)])>>)])

SynthOutcomes ==
    {[tag |-> "construct_raises", v |-> Unset],
     [tag |-> "ainvoke_raises", v |-> Unset]}
        \cup {[tag |-> "state", v |-> SynthState(text)] : text \in SynthTexts}

----------------------------------------------------------------------------
(* combined_agent(user_query) *)

ExtractionFailure(info) ==
    Dict([k \in {"error", "extracted_info"} |->
             IF k = "error"
             THEN Str(<<"Business type or location could not be extracted.">>)
             ELSE info])

\* business = extracted.get("business") and the two lines after it
BusinessOf(info) == Get(info, "business", None)
LocationOf(info) == Get(info, "location", None)
DescriptionOf(info) == Get(info, "description", SentinelDescription)

\* a gate that forgets the "unknown" sentinel
GateHalts_NoSentinel(info) ==
    \/ ~Truthy(BusinessOf(info))
    \/ ~Truthy(LocationOf(info))

\* a gate on the business alone, as the one of app.py
GateHalts_BusinessOnly(info) ==
    \/ ~Truthy(BusinessOf(info))
    \/ BusinessOf(info) = SentinelBusiness

\* if not business or not location or business == "unknown"
GateHalts(info) ==
    \/ ~Truthy(BusinessOf(info))
    \/ ~Truthy(LocationOf(info))
    \/ BusinessOf(info) = SentinelBusiness

AgentArgs(info) ==
    Dict([k \in {"business", "location", "description"} |->
             CASE k = "business" -> BusinessOf(info)
               [] k = "location" -> LocationOf(info)
               [] k = "description" -> DescriptionOf(info)])

NoOutcomes == [k \in Kinds |-> NoOutcome]

\* two calls of the same function, one after the other
Calls == {"first", "second"}
NoArgs == [k \in Kinds |-> Unset]

Init ==
    /\ pc = "start"
    /\ extracted = Unset
    /\ loopOut = NoOutcomes
    /\ market = Unset
    /\ competition = Unset
    /\ financial = Unset
    /\ synthIn = Unset
    /\ synthOut = NoOutcome
    /\ result = Unset
    /\ trace = <<>>
    /\ agentIn = NoArgs
    /\ exPc = "idle"
    /\ exOut = [kind |-> "none", content |-> <<>>]
    /\ exRet = Unset
    /\ appPc = "idle"
    /\ user_input = Str(<<>>)
    /\ analysis_type = "none"
    /\ parsed_user_intent = Unset
    /\ appResult = Unset
    /\ shown = <<>>
    /\ hIntent = Unset
    /\ mock = NoOutcomes
    /\ agPc = [k \in Kinds |-> "unset"]
    /\ agArgs = NoArgs
    /\ agReport = NoArgs
    /\ agOrder = <<>>
    /\ finArgs = Unset
    /\ finPc = [r \in Calls |-> "unset"]
    /\ finIssued = [r \in Calls |-> <<>>]
    /\ finLookups = [r \in Calls |-> <<>>]
    /\ finResults = [r \in Calls |-> <<>>]
    /\ finLoop = [r \in Calls |-> NoOutcome]
    /\ finLoopCalls = [r \in Calls |-> 0]
    /\ finRet = [r \in Calls |-> Unset]
    /\ syService = <<>>
    /\ syPc = [r \in Calls |-> "unset"]
    /\ syIn = [r \in Calls |-> Unset]
    /\ syPrompt = [r \in Calls |-> Unset]
    /\ syRet = [r \in Calls |-> Unset]
    /\ trPc = "idle"
    /\ trTerm = Str(<<>>)
    /\ trData = [kind |-> "none", series |-> <<>>]
    /\ trRet = Unset

exVars == <<exPc, exOut, exRet>>

\* Step 1, first line: extracted = extract(user_query)
CallExtract ==
    /\ pc = "start"
    /\ \E o \in ExtractOutcomes :
          LET r == Extract(o)
          IN  /\ pc' = IF r.raised THEN "raised" ELSE "gate"
              /\ extracted' = r.ret
    /\ trace' = Append(trace, "extract")
    /\ UNCHANGED <<loopOut, market, competition, financial, synthIn,
                   synthOut, result, agentIn, exVars, sideVars>>

\* Step 1, the rest: the three .get calls and the gate
Gate ==
    /\ pc = "gate"
    /\ IF ~IsDict(extracted)
       THEN pc' = "raised" /\ result' = result
       ELSE IF GateHalts(extracted)
       THEN pc' = "done" /\ result' = ExtractionFailure(extracted)
       ELSE pc' = "market" /\ result' = result
    /\ UNCHANGED <<extracted, loopOut, market, competition, financial,
                   synthIn, synthOut, trace, agentIn, exVars, sideVars>>

\* a Market step that calls the agent again when its loop raised
RunMarket_Retry ==
    /\ pc = "market"
    /\ \E o \in LoopOutcomes("market") :
          LET r == run_market_analysis_agent(o)
          IN  /\ pc' = IF r.raised THEN "raised"
                        ELSE IF o.tag = "ainvoke_raises" /\ Len(trace) < 3
                        THEN "market"
                        ELSE "competitive"
              /\ market' = r.ret
              /\ loopOut' = [loopOut EXCEPT !["market"] = o]
    /\ agentIn' = [agentIn EXCEPT !["market"] = AgentArgs(extracted)]
    /\ trace' = Append(trace, "market")
    /\ UNCHANGED <<extracted, competition, financial, synthIn, synthOut,
                   result, exVars, sideVars>>

\* Step 2: market = await run_market_analysis_agent(...)
RunMarket ==
    /\ pc = "market"
    /\ \E o \in LoopOutcomes("market") :
          LET r == run_market_analysis_agent(o)
          IN  /\ pc' = IF r.raised THEN "raised" ELSE "competitive"
              /\ market' = r.ret
              /\ loopOut' = [loopOut EXCEPT !["market"] = o]
    /\ agentIn' = [agentIn EXCEPT !["market"] = AgentArgs(extracted)]
    /\ trace' = Append(trace, "market")
    /\ UNCHANGED <<extracted, competition, financial, synthIn, synthOut,
                   result, exVars, sideVars>>

\* Step 2: competition = await run_competitive_analysis_agent(...)
RunCompetitive ==
    /\ pc = "competitive"
    /\ \E o \in LoopOutcomes("competitive") :
          LET r == run_competitive_analysis_agent(o)
          IN  /\ pc' = IF r.raised THEN "raised" ELSE "financial"
              /\ competition' = r.ret
              /\ loopOut' = [loopOut EXCEPT !["competitive"] = o]
    /\ agentIn' = [agentIn EXCEPT !["competitive"] = AgentArgs(extracted)]
    /\ trace' = Append(trace, "competitive")
    /\ UNCHANGED <<extracted, market, financial, synthIn, synthOut, result,
                   exVars, sideVars>>

\* Step 2: financial = await financial_analysis(...)
RunFinancial ==
    /\ pc = "financial"
    /\ \E o \in LoopOutcomes("financial"), lookups \in LookupOutcomes :
          LET r == financial_analysis(BusinessOf(extracted),
                                      LocationOf(extracted), lookups, o)
          IN  /\ pc' = IF r.raised THEN "raised" ELSE "synth"
              /\ financial' = r.ret
              /\ loopOut' = [loopOut EXCEPT !["financial"] = o]
    /\ agentIn' = [agentIn EXCEPT !["financial"] = AgentArgs(extracted)]
    /\ trace' = Append(trace, "financial")
    /\ UNCHANGED <<extracted, market, competition, synthIn, synthOut,
                   result, exVars, sideVars>>

\* a synthesis step that answers like the agents: the parsed four fields, or
\* a complete record of empty fields when the answer does not parse
SynthesisResult_CompleteRecord(summary_response) ==
    LET text == summary_response.d["messages"].d["0"].d["content"].s
    IN  IF Len(text) = 1 /\ text[1] \in CombinedDocTokens
        THEN CombinedDoc(text[1])
        ELSE Dict([k \in Range(CombinedKeys) |-> Str(<<>>)])

\* what combined_agent does with the answer of final_agent.ainvoke
SynthesisResult(summary_response) == summary_response

\* Step 3: the synthesizer agent is built, invoked, and its response returned
Synthesize ==
    /\ pc = "synth"
    /\ \E o \in SynthOutcomes :
          /\ pc' = IF o.tag = "state" THEN "done" ELSE "raised"
          /\ synthIn' = IF o.tag = "construct_raises"
                        THEN synthIn
                        ELSE SynthesisInput(BusinessOf(extracted),
                                            LocationOf(extracted),
                                            DescriptionOf(extracted),
                                            market, competition, financial)
          /\ trace' = IF o.tag = "construct_raises"
                      THEN trace
                      ELSE Append(trace, "synth")
          /\ result' = IF o.tag = "state" THEN SynthesisResult(o.v) ELSE result
          /\ synthOut' = o
    /\ UNCHANGED <<extracted, loopOut, market, competition, financial,
                   agentIn, exVars, sideVars>>

Next ==
    \/ CallExtract
    \/ Gate
    \/ RunMarket
    \/ RunCompetitive
    \/ RunFinancial
    \/ Synthesize

Spec == Init /\ [][Next]_vars

----------------------------------------------------------------------------
(* A direct call of extract, as app.py makes it *)

runVars ==
    <<pc, extracted, loopOut, market, competition, financial, synthIn,
      synthOut, result, trace, agentIn>>

\* the Generation Service answers the extraction chain
ExtractInvoke ==
    /\ exPc = "idle"
    /\ \E o \in ExtractOutcomes : exOut' = o
    /\ exPc' = "invoked"
    /\ UNCHANGED <<exRet, runVars, sideVars>>

\* extract handles the answer and returns
ExtractFinish ==
    /\ exPc = "invoked"
    /\ LET r == Extract(exOut)
       IN  /\ exPc' = IF r.raised THEN "raised" ELSE "returned"
           /\ exRet' = r.ret
    /\ UNCHANGED <<exOut, runVars, sideVars>>

NextExtract ==
    \/ ExtractInvoke
    \/ ExtractFinish

SpecExtract == Init /\ [][NextExtract]_vars

----------------------------------------------------------------------------
(* app.py: the handler of the Analyze Business Idea button *)

AnalysisTypes ==
    {"Overall Business Analysis", "Market Research Analysis",
     "Competitive Analysis", "Financial Analysis"}

UserQuery == Str(<<"a bakery in Mumbai">>)

NoData == Str(<<"No data available.">>)

\* the three .get calls on parsed_user_intent, with their defaults
BusinessType(info) == Get(info, "business", SentinelBusiness)
LocationLocation(info) == Get(info, "location", SentinelLocation)
ProjectDescription(info) == Get(info, "description", SentinelDescription)

\* if business_type == "unknown"
AppGateHalts(info) == BusinessType(info) = SentinelBusiness

\* the arguments of the single-kind agent calls
AppArgs(info) ==
    Dict([k \in {"business", "location", "description"} |->
             CASE k = "business" -> BusinessType(info)
               [] k = "location" -> LocationLocation(info)
               [] k = "description" -> ProjectDescription(info)])

\* the branch of the handler each selection leads to
BranchOf(selection) ==
    CASE selection = "Overall Business Analysis" -> "overall"
      [] selection = "Market Research Analysis" -> "market"
      [] selection = "Competitive Analysis" -> "competitive"
      [] selection = "Financial Analysis" -> "financial"

\* the st.markdown(result.get(key, "No data available.")) lines of a branch
Render(keys, r) == [i \in 1..Len(keys) |-> Get(r, keys[i], NoData)]

appRunVars ==
    <<pc, extracted, market, competition, financial, synthIn, synthOut,
      result>>

\* the button is pressed: if user_input: ... else: st.error(...)
AppClick ==
    /\ appPc = "idle"
    /\ \E text \in {Str(<<>>), UserQuery}, selection \in AnalysisTypes :
          /\ user_input' = text
          /\ analysis_type' = selection
          /\ appPc' = IF Truthy(text) THEN "extract" ELSE "no_input"
    /\ UNCHANGED <<parsed_user_intent, appResult, shown, appRunVars, loopOut,
                   trace, agentIn, exVars, agVars, finVars, syVars,
                   trVars>>

\* 1. User Intent Agent: extract(user_input), the three .get calls and the
\* test of business_type
AppExtract ==
    /\ appPc = "extract"
    /\ \E o \in ExtractOutcomes :
          LET r == Extract(o)
          IN  /\ parsed_user_intent' = r.ret
              /\ appPc' = IF r.raised \/ ~IsDict(r.ret) THEN "raised"
                          ELSE IF AppGateHalts(r.ret) THEN "warned"
                          ELSE BranchOf(analysis_type)
    /\ trace' = Append(trace, "extract")
    /\ UNCHANGED <<user_input, analysis_type, appResult, shown, appRunVars,
                   loopOut, agentIn, exVars, agVars, finVars, syVars,
                   trVars>>

\* Overall Business Analysis: asyncio.run(combined_agent(user_input)) runs
AppCombined ==
    /\ appPc = "overall"
    /\ \/ CallExtract
       \/ Gate
       \/ RunMarket
       \/ RunCompetitive
       \/ RunFinancial
       \/ Synthesize

\* Overall Business Analysis: the result is displayed, or the exception
AppOverallEnd ==
    /\ appPc = "overall"
    /\ pc \in {"done", "raised"}
    /\ IF pc = "raised"
       THEN /\ appPc' = "error_shown"
            /\ UNCHANGED <<appResult, shown>>
       ELSE /\ appPc' = "rendered"
            /\ appResult' = result
            /\ shown' = Render(CombinedKeys, result)
    /\ UNCHANGED <<user_input, analysis_type, parsed_user_intent, appRunVars,
                   loopOut, trace, agentIn, exVars, agVars, finVars, syVars,
                   trVars>>

\* Market Research Analysis
AppMarket ==
    /\ appPc = "market"
    /\ \E o \in LoopOutcomes("market") :
          LET r == run_market_analysis_agent(o)
          IN  /\ loopOut' = [loopOut EXCEPT !["market"] = o]
              /\ IF r.raised
                 THEN appPc' = "raised" /\ UNCHANGED <<appResult, shown>>
                 ELSE /\ appPc' = "rendered"
                      /\ appResult' = r.ret
                      /\ shown' = Render(MarketKeys, r.ret)
    /\ agentIn' = [agentIn EXCEPT !["market"] = AppArgs(parsed_user_intent)]
    /\ trace' = Append(trace, "market")
    /\ UNCHANGED <<user_input, analysis_type, parsed_user_intent, appRunVars,
                   exVars, agVars, finVars, syVars,
                   trVars>>

\* Competitive Analysis
AppCompetitive ==
    /\ appPc = "competitive"
    /\ \E o \in LoopOutcomes("competitive") :
          LET r == run_competitive_analysis_agent(o)
          IN  /\ loopOut' = [loopOut EXCEPT !["competitive"] = o]
              /\ IF r.raised
                 THEN appPc' = "raised" /\ UNCHANGED <<appResult, shown>>
                 ELSE /\ appPc' = "rendered"
                      /\ appResult' = r.ret
                      /\ shown' = Render(CompetitiveKeys, r.ret)
    /\ agentIn' =
          [agentIn EXCEPT !["competitive"] = AppArgs(parsed_user_intent)]
    /\ trace' = Append(trace, "competitive")
    /\ UNCHANGED <<user_input, analysis_type, parsed_user_intent, appRunVars,
                   exVars, agVars, finVars, syVars,
                   trVars>>

\* Financial Analysis
AppFinancial ==
    /\ appPc = "financial"
    /\ \E o \in LoopOutcomes("financial"), lookups \in LookupOutcomes :
          LET r == financial_analysis(BusinessType(parsed_user_intent),
                                      LocationLocation(parsed_user_intent),
                                      lookups, o)
          IN  /\ loopOut' = [loopOut EXCEPT !["financial"] = o]
              /\ IF r.raised
                 THEN appPc' = "raised" /\ UNCHANGED <<appResult, shown>>
                 ELSE /\ appPc' = "rendered"
                      /\ appResult' = r.ret
                      /\ shown' = Render(FinancialKeys, r.ret)
    /\ agentIn' = [agentIn EXCEPT !["financial"] = AppArgs(parsed_user_intent)]
    /\ trace' = Append(trace, "financial")
    /\ UNCHANGED <<user_input, analysis_type, parsed_user_intent, appRunVars,
                   exVars, agVars, finVars, syVars,
                   trVars>>

NextApp ==
    \/ AppClick
    \/ AppExtract
    \/ AppCombined
    \/ AppOverallEnd
    \/ AppMarket
    \/ AppCompetitive
    \/ AppFinancial

SpecApp == Init /\ [][NextApp]_vars

----------------------------------------------------------------------------
(* The three agent coroutines run on their own, in any order or interleaved,*)
(* on one IntentRecord, each reasoning loop answering with its own fixed   *)
(* payload                                                                 *)

\* the state a loop ends in when the Generation Service answers with the
\* i-th payload of the kind
MockedAnswer(kind, i) ==
    [tag |-> "state",
     v |-> Dict([messages |-> Messages,
                 structured_response |-> Obj(ClassOf(kind), Payload(kind, i))])]

ValidIntents == {ValidDoc(tok) : tok \in ValidDocTokens}

agRunVars ==
    <<pc, extracted, loopOut, market, competition, financial, synthIn,
      synthOut, result, trace, agentIn>>

\* the IntentRecord and the fixed payloads of a run are chosen
AgentsSetup ==
    /\ hIntent = Unset
    /\ \E info \in ValidIntents, idx \in [Kinds -> 1..MaxPayload] :
          /\ hIntent' = info
          /\ mock' = [k \in Kinds |-> MockedAnswer(k, idx[k])]
    /\ agPc' = [k \in Kinds |-> "idle"]
    /\ UNCHANGED <<agArgs, agReport, agOrder, agRunVars, exVars, appVars,
                   finVars, syVars, trVars>>

\* an agent coroutine is called and runs up to its await of agent.ainvoke:
\* it takes its arguments and builds its own llm and agent
AgentStart(kind) ==
    /\ agPc[kind] = "idle"
    /\ agPc' = [agPc EXCEPT ![kind] = "running"]
    /\ agArgs' = [agArgs EXCEPT ![kind] = AgentArgs(hIntent)]
    /\ agOrder' = Append(agOrder, kind)
    /\ UNCHANGED <<hIntent, mock, agReport, agRunVars, exVars, appVars,
                   finVars, syVars, trVars>>

\* the value an agent function returns for the loop outcome o
AgentCall(kind, args, lookups, o) ==
    CASE kind = "market" -> run_market_analysis_agent(o)
      [] kind = "competitive" -> run_competitive_analysis_agent(o)
      [] kind = "financial" ->
            financial_analysis(args.d["business"], args.d["location"],
                               lookups, o)

\* the loop of an agent coroutine answers and the coroutine returns
AgentFinish(kind) ==
    /\ agPc[kind] = "running"
    /\ \E lookups \in LookupOutcomes :
          LET r == AgentCall(kind, agArgs[kind], lookups, mock[kind])
          IN  /\ agPc' = [agPc EXCEPT
                             ![kind] = IF r.raised THEN "raised" ELSE "returned"]
              /\ agReport' = [agReport EXCEPT ![kind] = r.ret]
    /\ agOrder' = Append(agOrder, kind)
    /\ UNCHANGED <<hIntent, mock, agArgs, agRunVars, exVars, appVars,
                   finVars, syVars, trVars>>

NextAgents ==
    \/ AgentsSetup
    \/ \E kind \in Kinds : AgentStart(kind)
    \/ \E kind \in Kinds : AgentFinish(kind)

SpecAgents == Init /\ [][NextAgents]_vars

----------------------------------------------------------------------------
(* financial_analysis step by step: the four direct queries, the building  *)
(* of the agent, the reasoning loop.  Two calls with the same arguments are*)
(* made one after the other                                                *)

LookupAnswers == {"snippets", "raises"}

QueryCount == Len(Queries(None, None))

\* the entry financial_results gets for a query that was answered
ResultEntry(query_str) ==
    <<"--- Search Results for '">> \o query_str \o
        <<"' ---", Newline, "snippets", Newline>>

\* where the for loop over queries goes after a query failed: straight to
\* the building of the agent
AfterQuery_StopOnFailure(n, answer) ==
    IF answer = "raises" \/ n = QueryCount THEN "construct" ELSE "query"

\* where the for loop over queries goes after its n-th query
AfterQuery(n, answer) == IF n = QueryCount THEN "construct" ELSE "query"

\* "\n".join(financial_results)
RECURSIVE Join(_, _)
Join(results, n) ==
    IF n = 0 THEN <<>>
    ELSE Join(results, n - 1) \o (IF n > 1 THEN <<Newline>> ELSE <<>>) \o
            results[n]

\* a return value that reports what the direct queries found when the loop
\* gave no report
FinancialReturn_WithLookups(combined_results, o) ==
    LET r == CoerceFinancial(o)
    IN  IF r.d["revenue_potential"].s = <<>>
        THEN With(r, "revenue_potential", Str(combined_results))
        ELSE r

\* the try block of financial_analysis, combined_results in scope
FinancialReturn(combined_results, o) == CoerceFinancial(o)

otherFinVars ==
    <<pc, extracted, loopOut, market, competition, financial, synthIn,
      synthOut, result, trace, agentIn, exVars, appVars, agVars, syVars,
      trVars>>

\* the arguments of the two calls are chosen
FinSetup ==
    /\ finArgs = Unset
    /\ \E info \in ValidIntents : finArgs' = AgentArgs(info)
    /\ finPc' = [r \in Calls |-> "idle"]
    /\ UNCHANGED <<finIssued, finLookups, finResults, finLoop,
                   finLoopCalls, finRet, otherFinVars>>

\* financial_analysis is called: queries and financial_results are set up
FinCall(r) ==
    /\ finPc[r] = "idle"
    /\ r = "second" => finPc["first"] \in {"returned", "raised"}
    /\ finPc' = [finPc EXCEPT ![r] = "query"]
    /\ finResults' = [finResults EXCEPT ![r] = <<>>]
    /\ UNCHANGED <<finArgs, finIssued, finLookups, finLoop, finLoopCalls,
                   finRet, otherFinVars>>

\* one round of the for loop: search_tool.run(query_str) in its try block
FinQuery(r) ==
    /\ finPc[r] = "query"
    /\ LET n == Len(finIssued[r]) + 1
           query_str == Queries(finArgs.d["business"],
                                finArgs.d["location"])[n]
       IN  \E answer \in LookupAnswers :
              /\ finIssued' = [finIssued EXCEPT ![r] = Append(@, query_str)]
              /\ finLookups' = [finLookups EXCEPT ![r] = Append(@, answer)]
              /\ finResults' =
                    [finResults EXCEPT
                        ![r] = IF answer = "snippets"
                               THEN Append(@, ResultEntry(query_str))
                               ELSE @]
              /\ finPc' = [finPc EXCEPT ![r] = AfterQuery(n, answer)]
    /\ UNCHANGED <<finArgs, finLoop, finLoopCalls, finRet, otherFinVars>>

\* combined_results, financial_llm, finance_agent and agent_input are built
FinConstruct(r) ==
    /\ finPc[r] = "construct"
    /\ \E ok \in BOOLEAN :
          /\ finPc' = [finPc EXCEPT ![r] = IF ok THEN "loop" ELSE "raised"]
          /\ finLoop' = [finLoop EXCEPT
                            ![r] = IF ok THEN @
                                   ELSE [tag |-> "construct_raises",
                                         v |-> Unset]]
    /\ UNCHANGED <<finArgs, finIssued, finLookups, finResults,
                   finLoopCalls, finRet, otherFinVars>>

\* the try block: finance_agent.ainvoke and the coercion of its result
FinInvoke(r) ==
    /\ finPc[r] = "loop"
    /\ \E o \in LoopOutcomes("financial") \ {[tag |-> "construct_raises",
                                              v |-> Unset]} :
          /\ finLoop' = [finLoop EXCEPT ![r] = o]
          /\ finRet' =
                [finRet EXCEPT
                    ![r] = FinancialReturn(
                               Join(finResults[r],
                                    Len(finResults[r])), o)]
    /\ finLoopCalls' = [finLoopCalls EXCEPT ![r] = @ + 1]
    /\ finPc' = [finPc EXCEPT ![r] = "returned"]
    /\ UNCHANGED <<finArgs, finIssued, finLookups, finResults,
                   otherFinVars>>

NextFinancial ==
    \/ FinSetup
    \/ \E r \in Calls : FinCall(r)
    \/ \E r \in Calls : FinQuery(r)
    \/ \E r \in Calls : FinConstruct(r)
    \/ \E r \in Calls : FinInvoke(r)

SpecFinancial == Init /\ [][NextFinancial]_vars

----------------------------------------------------------------------------
(* Step 3 of combined_agent on its own, against a deterministic Generation *)
(* Service: two synthesis steps, one after the other                       *)

\* what a synthesis step is given: the IntentRecord and the three reports
SynthGiven(info, m, c, f) ==
    Dict([k \in {"intent", "market", "competition", "financial"} |->
             CASE k = "intent" -> info
               [] k = "market" -> m
               [] k = "competition" -> c
               [] k = "financial" -> f])

SynthGivens ==
    {SynthGiven(info, m, Dict(Payload("competitive", 1)),
                Dict(Payload("financial", 1))) :
        info \in {Intent(Business(1), Mumbai, Description(1)),
                  Without(Intent(Business(1), SentinelLocation, None),
                          "description")},
        m \in {Dict(Payload("market", 1)),
               ErrorRecord("market", ServiceError)}}

\* the mapping a synthesis step builds from what it is given
PromptOf(given) ==
    SynthesisInput(BusinessOf(given.d["intent"]),
                   LocationOf(given.d["intent"]),
                   DescriptionOf(given.d["intent"]),
                   given.d["market"], given.d["competition"],
                   given.d["financial"])

\* the answers of a deterministic service: a failure, a valid answer, or a
\* text that is no JSON
ServiceAnswers ==
    {[tag |-> "ainvoke_raises", v |-> Unset],
     [tag |-> "state", v |-> SynthState(<<"{combined#1}">>)],
     [tag |-> "state", v |-> SynthState(Garbage)]}

\* a prompt the service was not prepared for gets one fixed answer
AnswerTo(service, prompt) ==
    IF prompt \in DOMAIN service
    THEN service[prompt]
    ELSE [tag |-> "state", v |-> SynthState(<<"{}">>)]

otherSyVars ==
    <<pc, extracted, loopOut, market, competition, financial, synthIn,
      synthOut, result, trace, agentIn, exVars, appVars, agVars, finVars,
      trVars>>

\* a deterministic Generation Service is put in place: one answer per prompt
SynthSetup ==
    /\ syService = <<>>
    /\ syService' \in [{PromptOf(g) : g \in SynthGivens} -> ServiceAnswers]
    /\ syPc' = [r \in Calls |-> "idle"]
    /\ UNCHANGED <<syIn, syPrompt, syRet, otherSyVars>>

\* the synthesis step is reached with an IntentRecord and three reports
SynthStepCall(r) ==
    /\ syPc[r] = "idle"
    /\ r = "second" => syPc["first"] \in {"returned", "raised"}
    /\ \E given \in SynthGivens : syIn' = [syIn EXCEPT ![r] = given]
    /\ syPc' = [syPc EXCEPT ![r] = "synth"]
    /\ UNCHANGED <<syService, syPrompt, syRet, otherSyVars>>

\* the synthesizer is built and invoked, and its response returned
SynthStepRun(r) ==
    /\ syPc[r] = "synth"
    /\ LET prompt == PromptOf(syIn[r])
           o == AnswerTo(syService, prompt)
       IN  /\ syPrompt' = [syPrompt EXCEPT ![r] = prompt]
           /\ syPc' = [syPc EXCEPT
                          ![r] = IF o.tag = "state" THEN "returned"
                                 ELSE "raised"]
           /\ syRet' = [syRet EXCEPT
                           ![r] = IF o.tag = "state"
                                  THEN SynthesisResult(o.v)
                                  ELSE None]
    /\ UNCHANGED <<syService, syIn, otherSyVars>>

NextSynth ==
    \/ SynthSetup
    \/ \E r \in Calls : SynthStepCall(r)
    \/ \E r \in Calls : SynthStepRun(r)

SpecSynth == Init /\ [][NextSynth]_vars

----------------------------------------------------------------------------
(* google_trends_insight(term, timeframe): the googletrends tool *)

\* the module imports no TrendReq: the name is unbound when line 168 runs
TrendReqDefined == FALSE

NameError == Str(<<"name 'TrendReq' is not defined">>)
TrendServiceError == Str(<<"The request failed: Google returned a response with code 429">>)

DefaultTimeframe == <<"today 12-m">>

Terms == {Str(<<"bakery">>), Str(<<"bakery Mumbai">>)}

\* the interest-over-time series the Trend Service may hold for a term
RECURSIVE SeriesOfLen(_)
SeriesOfLen(n) ==
    IF n = 0 THEN {<<>>}
    ELSE {Append(q, x) : q \in SeriesOfLen(n - 1), x \in 0..MaxInterest}

TrendData ==
    {[kind |-> "raises", series |-> <<>>]}
        \cup {[kind |-> "data", series |-> q] :
                 q \in UNION {SeriesOfLen(n) : n \in 0..MaxSeries}}

RECURSIVE Sum(_)
Sum(q) == IF q = <<>> THEN 0 ELSE Head(q) + Sum(Tail(q))

\* data[term].max()
Peak(q) == CHOOSE x \in Range(q) : \A y \in Range(q) : y <= x

\* data[term].iloc[-1]
Latest(q) == q[Len(q)]

\* latest > mean_trend, the mean being Sum(q) / Len(q)
AboveMean(q) == Latest(q) * Len(q) > Sum(q)

\* f"Error fetching trend data for '{term}': {e}"
TrendError(term, e) ==
    Str(<<"Error fetching trend data for '">> \o term.s \o <<"': ">> \o e.s)

\* f"No trend data found for '{term}'."
NoTrendData(term) ==
    Str(<<"No trend data found for '">> \o term.s \o <<"'.">>)

\* trend_summary
TrendSummary(term, timeframe, q) ==
    Str(<<"Google Trends Summary for **">> \o term.s \o <<"** (">> \o
        timeframe \o <<"):", Newline,
          "- Peak Interest: ", ToString(Peak(q)), Newline,
          "- Latest Interest Level: ", ToString(Latest(q)), Newline,
          "- Average Interest: ",
          ToString(Sum(q)) \o "/" \o ToString(Len(q)), Newline,
          "-  Timeframe: ">> \o timeframe \o
        <<Newline, Newline, "The term '">> \o term.s \o
        <<"' has shown a ",
          IF AboveMean(q) THEN "rising" ELSE "declining",
          " trend in search interest recently.">>)

\* the return value of google_trends_insight; the whole body is in one try
google_trends_insight(term, timeframe, service) ==
    IF ~TrendReqDefined THEN TrendError(term, NameError)
    ELSE IF service.kind = "raises" THEN TrendError(term, TrendServiceError)
    ELSE IF service.series = <<>> THEN NoTrendData(term)
    ELSE TrendSummary(term, timeframe, service.series)

otherTrVars ==
    <<pc, extracted, loopOut, market, competition, financial, synthIn,
      synthOut, result, trace, agentIn, exVars, appVars, agVars, finVars,
      syVars>>

\* a reasoning loop calls the tool with a term
TrendsCall ==
    /\ trPc = "idle"
    /\ \E term \in Terms, service \in TrendData :
          /\ trTerm' = term
          /\ trData' = service
    /\ trPc' = "called"
    /\ UNCHANGED <<trRet, otherTrVars>>

\* the tool returns to the loop
TrendsReturn ==
    /\ trPc = "called"
    /\ trRet' = google_trends_insight(trTerm, DefaultTimeframe, trData)
    /\ trPc' = "returned"
    /\ UNCHANGED <<trTerm, trData, otherTrVars>>

NextTrends ==
    \/ TrendsCall
    \/ TrendsReturn

SpecTrends == Init /\ [][NextTrends]_vars

----------------------------------------------------------------------------
(* Vocabulary of the properties *)

\* the report variable of each agent kind
ReportOf(kind) ==
    CASE kind = "market" -> market
      [] kind = "competitive" -> competition
      [] kind = "financial" -> financial

Returned(kind) == ReportOf(kind).ty # "unset"

\* the final answer of a reasoning loop: the structured response when the
\* loop left one
FinalAnswer(o) ==
    IF o.tag = "state" /\ "structured_response" \in DOMAIN o.v.d
    THEN o.v.d["structured_response"]
    ELSE Unset

\* the final answer matches the declared schema of the kind
Conforms(kind, v) ==
    /\ v.ty \in {"dict", ClassOf(kind)}
    /\ \A k \in Range(KeysOf(kind)) : k \in DOMAIN v.d /\ v.d[k].ty = "str"

\* the loop ended with an instance of the declared schema
LoopSucceeded(kind) == FinalAnswer(loopOut[kind]).ty = ClassOf(kind)

\* the loop ran and gave nothing that matches the schema
LoopFailed(kind) ==
    /\ loopOut[kind].tag \in {"ainvoke_raises", "state"}
    /\ ~Conforms(kind, FinalAnswer(loopOut[kind]))

\* a complete record: every declared key, every value a str
IsTotal(kind, r) ==
    /\ r.ty = "dict"
    /\ Range(KeysOf(kind)) \subseteq DOMAIN r.d
    /\ \A k \in DOMAIN r.d : r.d[k].ty = "str"

\* the fallback record: "Error: ..." in the primary field, "" elsewhere
IsFallback(kind, r) ==
    /\ IsTotal(kind, r)
    /\ Len(r.d[PrimaryOf(kind)].s) >= 2
    /\ r.d[PrimaryOf(kind)].s[1] = "Error: "
    /\ \A k \in Range(KeysOf(kind)) \ {PrimaryOf(kind)} : r.d[k].s = <<>>

----------------------------------------------------------------------------
(* C1: whatever the reasoning loop did (schema instance, complete dict,    *)
(* dict with missing keys, non-dict value, raised failure), the record an  *)
(* agent returned holds every declared key of its kind and only str values *)

C1_TotalField ==
    \A kind \in Kinds : Returned(kind) => IsTotal(kind, ReportOf(kind))

\* all three agents returned, none from a schema instance: a raised loop, a
\* dict with a missing key and a non-dict answer
C1_Witness ==
    /\ pc = "synth"
    /\ loopOut["market"].tag = "ainvoke_raises"
    /\ FinalAnswer(loopOut["competitive"]).ty = "dict"
    /\ ~Conforms("competitive", FinalAnswer(loopOut["competitive"]))
    /\ FinalAnswer(loopOut["financial"]).ty = "NoneType"

----------------------------------------------------------------------------
(* C2: hard extraction gate.  When the record extract returned has business*)
(* "unknown" or no business, the run halts with {error, extracted_info},   *)
(* extracted_info being that record unchanged, and neither an agent nor    *)
(* the Synthesizer was invoked                                             *)

NoBusiness(info) ==
    \/ "business" \notin DOMAIN info.d
    \/ info.d["business"].ty = "NoneType"
    \/ info.d["business"] = Str(<<"unknown">>)

NothingRan ==
    /\ trace = <<"extract">>
    /\ \A kind \in Kinds :
          ~Returned(kind) /\ loopOut[kind].tag = "none"
                          /\ agentIn[kind].ty = "unset"
    /\ synthIn.ty = "unset"
    /\ synthOut.tag = "none"

C2_HardGate ==
    (pc \notin {"start", "gate"} /\ extracted.ty = "dict" /\ NoBusiness(extracted))
        => /\ pc = "done"
           /\ result.ty = "dict"
           /\ DOMAIN result.d = {"error", "extracted_info"}
           /\ result.d["error"].ty = "str"
           /\ result.d["extracted_info"] = extracted
           /\ NothingRan

\* the gate closed on the sentinel record extract builds when parsing failed
C2_Witness ==
    /\ pc = "done"
    /\ extracted.ty = "dict"
    /\ "raw_llm_output" \in DOMAIN extracted.d
    /\ extracted.d["business"] = Str(<<"unknown">>)
    /\ "extracted_info" \in DOMAIN result.d

----------------------------------------------------------------------------
(* C3: extract never raises and always returns a record that has the keys  *)
(* business, location and description, whatever the Generation Service did *)
(* (failure, non-JSON text, JSON that is not an object, JSON object missing*)
(* keys, valid object)                                                     *)

C3_WellFormedIntent ==
    exOut.kind \in {"invoke_raises", "content_not_str", "text"} =>
        /\ exPc # "raised"
        /\ exPc = "returned" =>
              /\ exRet.ty = "dict"
              /\ {"business", "location", "description"} \subseteq DOMAIN exRet.d

----------------------------------------------------------------------------
(* C4: the error fields of the record extract returns *)

ParseFailed(o) == o.kind = "text" /\ ~JsonLoads(ParserInput(o.content)).ok
CallFailed(o) == o.kind \in {"invoke_raises", "content_not_str"}

HasSentinels(r) ==
    /\ r.ty = "dict"
    /\ {"business", "location", "description"} \subseteq DOMAIN r.d
    /\ r.d["business"] = Str(<<"unknown">>)
    /\ r.d["location"] = Str(<<"any">>)
    /\ r.d["description"] = Str(<<"N/A">>)

----------------------------------------------------------------------------
(* C5: schema-coercion fallback.  Whenever the final answer of an agent's  *)
(* loop cannot be coerced to the declared schema (missing keys, wrong type,*)
(* non-dict, raised failure), the agent returns the record with "Error: .."*)
(* in its primary field and "" in every other declared field               *)

C5_CoercionFallback ==
    \A kind \in Kinds :
        (Returned(kind) /\ LoopFailed(kind)) => IsFallback(kind, ReportOf(kind))

\* a dict with a missing key, a dict with a value of the wrong type and an
\* answer that is no dict, one per agent
C5_Witness ==
    /\ pc = "synth"
    /\ FinalAnswer(loopOut["market"]).ty = "dict"
    /\ PrimaryOf("market") \notin DOMAIN FinalAnswer(loopOut["market"]).d
    /\ FinalAnswer(loopOut["competitive"]).ty = "dict"
    /\ PrimaryOf("competitive") \in DOMAIN FinalAnswer(loopOut["competitive"]).d
    /\ FinalAnswer(loopOut["competitive"]).d[PrimaryOf("competitive")].ty = "int"
    /\ FinalAnswer(loopOut["financial"]).ty = "str"
    /\ \A kind \in Kinds : IsFallback(kind, ReportOf(kind))

----------------------------------------------------------------------------
(* C6: degradation isolation.  In a run where the Market loop fails and the*)
(* other two loops succeed, the Competitive and Financial reports are what *)
(* their own loops produced, and the Synthesizer is still invoked, with the*)
(* degraded Market record and the two unaffected reports                   *)

MarketDegraded ==
    /\ LoopFailed("market")
    /\ LoopSucceeded("competitive")
    /\ LoopSucceeded("financial")

C6_DegradationIsolation ==
    (MarketDegraded /\ Returned("financial")) =>
        /\ IsFallback("market", market)
        /\ competition.d = FinalAnswer(loopOut["competitive"]).d
        /\ financial.d = FinalAnswer(loopOut["financial"]).d
        /\ pc = "synth" \/ synthOut.tag # "none"
        /\ synthOut.tag \in {"ainvoke_raises", "state"} =>
              /\ synthIn.ty = "dict"
              /\ synthIn.d["market"] = JsonDumps(MarketKeys, market)
              /\ synthIn.d["competition"] =
                    JsonDumps(CompetitiveKeys,
                              Dict(FinalAnswer(loopOut["competitive"]).d))
              /\ synthIn.d["financial"] =
                    JsonDumps(FinancialKeys,
                              Dict(FinalAnswer(loopOut["financial"]).d))
        /\ pc = "done" => result = synthOut.v

\* the Market loop answered without a structured response, the other two
\* with schema instances, and the Synthesizer answered
C6_Witness ==
    /\ pc = "done"
    /\ MarketDegraded
    /\ loopOut["market"].tag = "state"
    /\ synthOut.tag = "state"
    /\ synthIn.d["market"] = JsonDumps(MarketKeys, market)
    /\ market.d["market_overview"].s[1] = "Error: "

----------------------------------------------------------------------------
(* C7: when extraction passes the gate and the Generation Service answers  *)
(* the synthesis prompt with a valid JSON object of the four fields,       *)
(* combined_agent returns a record whose keys are exactly market_analysis, *)
(* competitive_analysis, financial_analysis and executive_summary, each a  *)
(* non-empty str taken from that answer                                    *)

\* the text of the last message of the state the synthesis call returned
SynthAnswer == synthOut.v.d["messages"].d["0"].d["content"].s

ValidSynthAnswer ==
    /\ synthOut.tag = "state"
    /\ Len(SynthAnswer) = 1
    /\ SynthAnswer[1] \in CombinedDocTokens

C7_CombinedResult ==
    (pc = "done" /\ ValidSynthAnswer) =>
        /\ result.ty = "dict"
        /\ DOMAIN result.d = Range(CombinedKeys)
        /\ \A k \in Range(CombinedKeys) :
              /\ k \in DOMAIN result.d
              /\ result.d[k].ty = "str"
              /\ result.d[k].s # <<>>
              /\ result.d[k] = CombinedDoc(SynthAnswer[1]).d[k]

----------------------------------------------------------------------------
(* C8: when the synthesis output cannot be parsed or coerced to the        *)
(* four-field schema, combined_agent returns the response it received,     *)
(* unchanged, and substitutes no four-field record for it                  *)

C8_PermissiveSynthesis ==
    (pc = "done" /\ synthOut.tag = "state" /\ ~ValidSynthAnswer) =>
        /\ result = synthOut.v
        /\ DOMAIN result.d # Range(CombinedKeys)

\* the synthesis answer was no JSON at all and the run returned
C8_Witness ==
    /\ pc = "done"
    /\ synthOut.tag = "state"
    /\ SynthAnswer = Garbage
    /\ result.ty = "dict"

----------------------------------------------------------------------------
(* C9: combined_agent and the three agent functions return a value and     *)
(* never raise, whatever the external services do at any stage.  Stated for*)
(* the last stage the claim names, the synthesis call: in a run whose      *)
(* extraction passed the gate and whose three agents returned,             *)
(* combined_agent does not raise                                           *)

C9_NeverRaises ==
    (\A kind \in Kinds : Returned(kind)) => pc # "raised"

----------------------------------------------------------------------------
(* C10: strict stage ordering.  Extraction completes before any agent      *)
(* starts, the three agents have returned before the Synthesizer is        *)
(* invoked, and the Synthesizer's input holds exactly the three reports the*)
(* agents returned and the business, location and description of the      *)
(* extracted record ("N/A" for a record without description)               *)

Stages == <<"extract", "market", "competitive", "financial", "synth">>

IsPrefix(s, u) == Len(s) <= Len(u) /\ s = SubSeq(u, 1, Len(s))

C10_StageOrder ==
    /\ IsPrefix(trace, Stages)
    /\ \A kind \in Kinds :
          agentIn[kind].ty # "unset" => extracted.ty = "dict"
    /\ synthIn.ty # "unset" =>
          /\ \A kind \in Kinds : Returned(kind)
          /\ synthIn.ty = "dict"
          /\ DOMAIN synthIn.d = {"business", "location", "description",
                                 "market", "competition", "financial"}
          /\ synthIn.d["business"] = extracted.d["business"]
          /\ synthIn.d["location"] = extracted.d["location"]
          /\ synthIn.d["description"] =
                IF "description" \in DOMAIN extracted.d
                THEN extracted.d["description"]
                ELSE Str(<<"N/A">>)
          /\ synthIn.d["market"] = JsonDumps(MarketKeys, market)
          /\ synthIn.d["competition"] = JsonDumps(CompetitiveKeys, competition)
          /\ synthIn.d["financial"] = JsonDumps(FinancialKeys, financial)

\* a complete run: five stages in order, the Synthesizer fed and answered
C10_Witness ==
    /\ pc = "done"
    /\ trace = Stages
    /\ synthIn.ty = "dict"
    /\ synthIn.d["business"] # synthIn.d["location"]
    /\ "description" \notin DOMAIN extracted.d

----------------------------------------------------------------------------
(* C11: for one user query handled by the Analyze Business Idea handler,   *)
(* whatever the analysis kind, extract is invoked exactly once, and every  *)
(* agent and the Synthesizer that run for the query consume the business,  *)
(* location and description of that single record                          *)

ExtractCalls == Cardinality({i \in 1..Len(trace) : trace[i] = "extract"})

IntentFields == {"business", "location", "description"}

\* the fields of the mapping v that the record info carries are info's
ConsumesIntent(v, info) ==
    \A k \in IntentFields \cap DOMAIN info.d : v.d[k] = info.d[k]

C11_SingleIntentRecord ==
    /\ ExtractCalls <= 1
    /\ appPc \notin {"idle", "no_input", "extract"} => ExtractCalls = 1
    /\ \A kind \in Kinds :
          agentIn[kind].ty # "unset" =>
              ConsumesIntent(agentIn[kind], parsed_user_intent)
    /\ synthIn.ty # "unset" => ConsumesIntent(synthIn, parsed_user_intent)

----------------------------------------------------------------------------
(* C12: agent independence.  Given one IntentRecord and a Generation       *)
(* Service that answers each agent with a fixed payload of its own, the    *)
(* three agents, run in any order or interleaved, receive the fields of    *)
(* that record and return each the record of its own payload, none raising *)
(* and none returning what another agent's loop answered                   *)

C12_AgentIndependence ==
    \A kind \in Kinds :
        /\ agPc[kind] # "raised"
        /\ agPc[kind] \in {"running", "returned"} =>
              /\ agArgs[kind].ty = "dict"
              /\ DOMAIN agArgs[kind].d = IntentFields
              /\ ConsumesIntent(agArgs[kind], hIntent)
        /\ agPc[kind] = "returned" =>
              /\ agReport[kind] = Dict(FinalAnswer(mock[kind]).d)
              /\ \A other \in Kinds \ {kind} :
                    agReport[kind].d # FinalAnswer(mock[other]).d

\* the three coroutines interleaved, started and ended in an order that is
\* not the one combined_agent awaits them in, with different payloads
C12_Witness ==
    /\ agOrder = <<"financial", "competitive", "market",
                   "competitive", "market", "financial">>
    /\ \A kind \in Kinds : agPc[kind] = "returned"
    /\ agReport["market"].d = Payload("market", 1)
    /\ agReport["financial"].d = Payload("financial", 2)

----------------------------------------------------------------------------
(* C13: the direct lookups of financial_analysis are not fatal.  Whichever *)
(* of the four direct queries fail, all four are issued, in order, before  *)
(* anything else; the reasoning loop is then invoked exactly once; and the *)
(* function returns a complete Financial record.  No failed lookup makes   *)
(* the function raise: it raises only when building the agent did          *)

FinQueries == Queries(finArgs.d["business"], finArgs.d["location"])

C13_LookupsNotFatal ==
    \A r \in Calls :
        finPc[r] # "unset" =>
        /\ IsPrefix(finIssued[r], FinQueries)
        /\ Len(finLookups[r]) = Len(finIssued[r])
        /\ finPc[r] \in {"construct", "loop", "returned", "raised"} =>
              finIssued[r] = FinQueries
        /\ finPc[r] \in {"idle", "query", "construct", "loop", "raised"} =>
              finLoopCalls[r] = 0
        /\ finPc[r] = "raised" => finLoop[r].tag = "construct_raises"
        /\ finPc[r] = "returned" =>
              /\ finLoopCalls[r] = 1
              /\ finLoop[r].tag \in {"ainvoke_raises", "state"}
              /\ IsTotal("financial", finRet[r])

\* the first and the third query failed, the other two were answered, and
\* the function returned the report of its loop
C13_Witness ==
    /\ finPc["first"] = "returned"
    /\ finLookups["first"] = <<"raises", "snippets", "raises", "snippets">>
    /\ Len(finResults["first"]) = 2
    /\ finLoopCalls["first"] = 1
    /\ FinalAnswer(finLoop["first"]).ty = ClassOf("financial")
    /\ finRet["first"].d = FinalAnswer(finLoop["first"]).d

----------------------------------------------------------------------------
(* C20: what the four direct lookups returned, or whether they failed, does*)
(* not influence the record financial_analysis returns: two calls with the *)
(* same business, location and description and the same outcome of the     *)
(* reasoning loop return identical records                                 *)

C20_LookupsNoInfluence ==
    (/\ finPc["first"] = "returned"
     /\ finPc["second"] = "returned"
     /\ finLoop["first"] = finLoop["second"])
        => finRet["first"] = finRet["second"]

\* two calls whose loops failed alike: every lookup of the first call failed,
\* every lookup of the second was answered, and the records are the same
C20_Witness ==
    /\ finPc["first"] = "returned"
    /\ finPc["second"] = "returned"
    /\ finLoop["first"] = finLoop["second"]
    /\ finLoop["first"].tag = "ainvoke_raises"
    /\ finResults["first"] = <<>>
    /\ Len(finResults["second"]) = QueryCount
    /\ finRet["first"] = finRet["second"]

----------------------------------------------------------------------------
(* C14: no automatic retry.  Within one run of combined_agent the          *)
(* extraction call, each agent and its reasoning loop, and the synthesis   *)
(* call are each invoked at most once, also when they fail or answer with  *)
(* malformed output: no stage is entered twice, what a stage did is never  *)
(* replaced by a second attempt, and a run that has ended takes no further *)
(* step, so that it yields at most one final result                        *)

Entries(stage) == Cardinality({i \in 1..Len(trace) : trace[i] = stage})

C14_NoRetry ==
    [][/\ \A stage \in Range(Stages) : Entries(stage)' <= 1
       /\ pc # "start" => extracted' = extracted
       /\ \A kind \in Kinds :
             loopOut[kind].tag # "none" =>
                 /\ loopOut'[kind] = loopOut[kind]
                 /\ ReportOf(kind)' = ReportOf(kind)
       /\ synthOut.tag # "none" => synthOut' = synthOut
       /\ result.ty # "unset" => result' = result
       /\ pc \in {"done", "raised"} => pc' = pc /\ trace' = trace]_vars

\* a run that ended although the Market loop raised, the Competitive loop
\* answered None and the synthesis answer was no JSON: five stages, each
\* entered once
C14_Witness ==
    /\ pc = "done"
    /\ loopOut["market"].tag = "ainvoke_raises"
    /\ FinalAnswer(loopOut["competitive"]).ty = "NoneType"
    /\ synthOut.tag = "state"
    /\ SynthAnswer = Garbage
    /\ \A stage \in Range(Stages) : Entries(stage) = 1

----------------------------------------------------------------------------
(* C15: determinism of synthesis.  Against a deterministic Generation      *)
(* Service, two synthesis steps given the same IntentRecord and the same   *)
(* three reports hand the service the same mapping and end alike: both     *)
(* raise, or both return, and then the same result                         *)

SynthEnded(r) == syPc[r] \in {"returned", "raised"}

----------------------------------------------------------------------------
(* C16: google_trends_insight never raises to the reasoning loop; when the *)
(* trend lookup fails it returns an error-description string, on empty     *)
(* data a "No trend data found" string, and it returns a summary only when *)
(* data is available, the summary saying "rising" exactly when the latest  *)
(* value is strictly greater than the mean and "declining" otherwise       *)

StartsWith(v, tok) == v.ty = "str" /\ v.s # <<>> /\ v.s[1] = tok

IsSummary(v) == StartsWith(v, "Google Trends Summary for **")

C16_TrendToolContained ==
    /\ trPc # "raised"
    /\ trPc = "returned" =>
          /\ trRet.ty = "str"
          /\ trData.kind = "raises" =>
                StartsWith(trRet, "Error fetching trend data for '")
          /\ (trData.kind = "data" /\ trData.series = <<>>) =>
                StartsWith(trRet, "No trend data found for '")
          /\ IsSummary(trRet) =>
                /\ trData.kind = "data"
                /\ trData.series # <<>>
                /\ "rising" \in Range(trRet.s) <=> AboveMean(trData.series)
                /\ "declining" \in Range(trRet.s) <=>
                      ~AboveMean(trData.series)

----------------------------------------------------------------------------
(* C17: extract strips Markdown code-fence wrapping before parsing.  For   *)
(* every service output that is a JSON text wrapped in a code fence (opened*)
(* by the fence alone or by the fence and the word json, closed by a fence *)
(* or not closed), the text handed to json.loads is exactly the inner      *)
(* content, so that extract returns the value of that JSON text; an        *)
(* unfenced output is handed over unchanged apart from surrounding         *)
(* whitespace                                                              *)

\* the service output opens with a code fence
Fenced(content) == Strip(content) # <<>> /\ Strip(content)[1] = Fence

\* what lies between the opening fence (and its json tag) and the closing
\* fence, if there is one
InnerContent(content) ==
    LET t == Strip(content)
        opened == IF Len(t) >= 2 /\ t[2] = JsonTag
                  THEN SubSeq(t, 3, Len(t))
                  ELSE SubSeq(t, 2, Len(t))
        closed == IF opened # <<>> /\ opened[Len(opened)] = Fence
                  THEN SubSeq(opened, 1, Len(opened) - 1)
                  ELSE opened
    IN  Strip(closed)

IsJsonText(s) == Len(s) = 1 /\ s[1] \in DocTokens

C17_FenceStripping ==
    (exPc = "returned" /\ exOut.kind = "text") =>
        /\ (Fenced(exOut.content) /\ IsJsonText(InnerContent(exOut.content)))
              => /\ ParserInput(exOut.content) = InnerContent(exOut.content)
                 /\ exRet = JsonValue(InnerContent(exOut.content)[1])
        /\ ~Fenced(exOut.content) =>
              ParserInput(exOut.content) = Strip(exOut.content)

----------------------------------------------------------------------------
(* C18: the gate of combined_agent is wider than the business gate.  A     *)
(* record with a valid business whose location is missing, null or empty   *)
(* halts the run with the ExtractionFailure record, no agent and no        *)
(* Synthesizer having been called; a record with a valid business and the  *)
(* sentinel location "any" passes the gate and the agents are called with  *)
(* it                                                                      *)

ValidBusiness(info) ==
    /\ "business" \in DOMAIN info.d
    /\ info.d["business"].ty = "str"
    /\ info.d["business"].s # <<>>
    /\ info.d["business"] # Str(<<"unknown">>)

NoLocation(info) ==
    \/ "location" \notin DOMAIN info.d
    \/ info.d["location"].ty = "NoneType"
    \/ info.d["location"] = Str(<<>>)

PastGate == pc \notin {"start", "gate"} /\ extracted.ty = "dict"

C18_LocationGate ==
    /\ (PastGate /\ ValidBusiness(extracted) /\ NoLocation(extracted)) =>
          /\ pc = "done"
          /\ result = ExtractionFailure(extracted)
          /\ NothingRan
    /\ (/\ PastGate
        /\ ValidBusiness(extracted)
        /\ ~NoLocation(extracted)
        /\ extracted.d["location"] = Str(<<"any">>)) =>
          /\ result # ExtractionFailure(extracted)
          /\ pc # "market" =>
                /\ Len(trace) >= 2
                /\ trace[2] = "market"
                /\ agentIn["market"].ty = "dict"
                /\ agentIn["market"].d["location"] = Str(<<"any">>)

\* the run halted on a record with a business and an empty location
C18_Witness ==
    /\ pc = "done"
    /\ extracted.ty = "dict"
    /\ ValidBusiness(extracted)
    /\ "location" \in DOMAIN extracted.d
    /\ extracted.d["location"] = Str(<<>>)
    /\ result = ExtractionFailure(extracted)
    /\ trace = <<"extract">>

----------------------------------------------------------------------------
(* C19: the gate of the handler in app.py and the gate inside              *)
(* combined_agent accept the same IntentRecords: the handler stops with its*)
(* warning exactly on the records combined_agent rejects, so that no       *)
(* single-kind selection (Market, Competitive, Financial) runs its agent on*)
(* a record the Overall path would reject                                  *)

SingleKind == {"market", "competitive", "financial"}

C19_SameGate ==
    (appPc \notin {"idle", "no_input", "extract", "raised"}
        /\ parsed_user_intent.ty = "dict") =>
        /\ appPc = "warned" <=> GateHalts(parsed_user_intent)
        /\ \A kind \in SingleKind :
              (BranchOf(analysis_type) = kind /\ agentIn[kind].ty # "unset")
                  => ~GateHalts(parsed_user_intent)

----------------------------------------------------------------------------
(* C21: the three agents coerce the result of their reasoning loop alike.  *)
(* When the structured response is a plain dict that carries every declared*)
(* key with a str value, each agent, the Financial agent like the Market   *)
(* and the Competitive agent, returns a record with those values and not   *)
(* the "Error: ..." fallback record                                        *)

PlainDictAnswer(kind) ==
    /\ FinalAnswer(loopOut[kind]).ty = "dict"
    /\ Conforms(kind, FinalAnswer(loopOut[kind]))

C21_UniformCoercion ==
    \A kind \in Kinds :
        (Returned(kind) /\ PlainDictAnswer(kind)) =>
            /\ IsTotal(kind, ReportOf(kind))
            /\ \A k \in Range(KeysOf(kind)) :
                  ReportOf(kind).d[k] = FinalAnswer(loopOut[kind]).d[k]
            /\ ~IsFallback(kind, ReportOf(kind))

====
